---- MODULE Spec2Model ----
(***************************************************************************)
(* A model of tabxx::CSV (csv.hpp): the Settings, the table (title_,       *)
(* values_), the private parse(std::istream&), detectType, anyToString and *)
(* write(std::ostream&), and the public mutators.                          *)
(*                                                                         *)
(* A std::string is a sequence of one-character strings.  A std::any cell  *)
(* is a record tagged with the C++ type it holds.  A std::istream is its   *)
(* unread characters with its eofbit and failbit.                          *)
(***************************************************************************)
EXTENDS Integers, Sequences, FiniteSets, TLC

VARIABLES
    ending_,            \* Settings::ending_            "LF" | "CRLF" | "AUTO"
    separator_,         \* Settings::separator_
    auto_derive_type_,  \* Settings::auto_derive_type_
    double_precision_,  \* Settings::double_precision_ (setDoublePrecision is not
                        \* among the calls made: it keeps Settings()'s value)
    title_,             \* CSV::title_
    values_,            \* CSV::values_
    pc,                 \* where the object is in its life
    src,                \* parse: the std::istream being read
    line,               \* parse: the local std::string line
    delim_line,         \* parse: the local char delim_line
    input,              \* the text the constructor was given
    call,               \* the last call made, with the argument given to a
                        \* constructor, setter, setTitle or addRow
    ret,                \* how the last call ended
    out,                \* the std::ostream the last write() wrote to
    T                   \* round trip: the table that was written

vars == <<ending_, separator_, auto_derive_type_, double_precision_, title_,
          values_, pc, src, line, delim_line, input, call, ret, out, T>>

settingsVars == <<ending_, separator_, auto_derive_type_, double_precision_>>
parseVars == <<src, line, delim_line, input>>

-----------------------------------------------------------------------------
(* Bounds of the model *)

MaxStream == 5     \* longest text parsed, when parsing alone is followed
MaxText == 3       \* longest text parsed by a table that is then put to use
MaxLine == 4       \* longest line handed to a tokenizer alone
MaxField == 3      \* longest raw field handed to detectType alone
MaxRows == 2       \* addRow is not called on a table of this many rows
MaxCols == 2       \* most titles of a table that is written and read back

-----------------------------------------------------------------------------
(* Characters *)

CR == "\r"
NL == "\n"
\* (char) of std::istream::get()'s EOF (-1): the byte 0xFF
EOFCH == "xFF"
QUOTE == "\""
\* delim_line before parse sets it
NOCHAR == "nul"

Digits == {"0", "1", "2", "3", "4", "5", "6", "7", "8", "9"}

DigitVal(ch) ==
    CASE ch = "0" -> 0 [] ch = "1" -> 1 [] ch = "2" -> 2 [] ch = "3" -> 3
      [] ch = "4" -> 4 [] ch = "5" -> 5 [] ch = "6" -> 6 [] ch = "7" -> 7
      [] ch = "8" -> 8 [] ch = "9" -> 9

DigitChar(d) ==
    CASE d = 0 -> "0" [] d = 1 -> "1" [] d = 2 -> "2" [] d = 3 -> "3"
      [] d = 4 -> "4" [] d = 5 -> "5" [] d = 6 -> "6" [] d = 7 -> "7"
      [] d = 8 -> "8" [] d = 9 -> "9"

\* All strings over alphabet A of length at most n
StringsUpTo(A, n) == UNION {[1..k -> A] : k \in 0..n}

-----------------------------------------------------------------------------
(* std::istream, std::stringstream *)

Stream(s) == [buf |-> s, eof |-> FALSE, fail |-> FALSE]

NoStream == [buf |-> <<>>, eof |-> FALSE, fail |-> FALSE]

good(s) == ~s.eof /\ ~s.fail

\* std::istream::get(): the character read (EOFCH when none) and the stream after
get(s) ==
    IF ~good(s)
    THEN [ch |-> EOFCH, s |-> [s EXCEPT !.fail = TRUE]]
    ELSE IF s.buf = <<>>
    THEN [ch |-> EOFCH, s |-> [s EXCEPT !.eof = TRUE, !.fail = TRUE]]
    ELSE [ch |-> Head(s.buf), s |-> [s EXCEPT !.buf = Tail(s.buf)]]

\* Index of the first delim in a sequence, 0 when there is none
RECURSIVE FindFrom(_, _, _)
FindFrom(buf, delim, i) ==
    IF i > Len(buf) THEN 0
    ELSE IF buf[i] = delim THEN i
    ELSE FindFrom(buf, delim, i + 1)

\* std::getline(s, str, delim): str after the call and the stream after.
\* A stream that is not good() fails the sentry and leaves str as it was.
getline(s, str, delim) ==
    IF ~good(s)
    THEN [str |-> str, s |-> [s EXCEPT !.fail = TRUE]]
    ELSE LET k == FindFrom(s.buf, delim, 1) IN
         IF k > 0
         THEN [str |-> SubSeq(s.buf, 1, k - 1),
               s   |-> [s EXCEPT !.buf = SubSeq(s.buf, k + 1, Len(s.buf))]]
         ELSE [str |-> s.buf,
               s   |-> [s EXCEPT !.buf = <<>>, !.eof = TRUE,
                                 !.fail = (s.buf = <<>>)]]

-----------------------------------------------------------------------------
(* std::any cells *)

Text(s) ==
    [type |-> "string", str |-> s, neg |-> FALSE, num |-> 0, scale |-> 0, what |-> ""]

Integer(n) ==
    [type |-> "long long", str |-> <<>>, neg |-> FALSE, num |-> n, scale |-> 0, what |-> ""]

\* A double of value (-1)^neg * num / 10^scale, with num >= 0 and no trailing
\* zero among its scale decimals.  Exact for the few digits the model reads.
Float(neg, num, scale) ==
    [type |-> "double", str |-> <<>>, neg |-> neg, num |-> num, scale |-> scale, what |-> ""]

\* An exception thrown where a value was expected
Throw(what) ==
    [type |-> "throw", str |-> <<>>, neg |-> FALSE, num |-> 0, scale |-> 0, what |-> what]

IsThrow(v) == v.type = "throw"

RECURSIVE Pow10(_)
Pow10(k) == IF k = 0 THEN 1 ELSE 10 * Pow10(k - 1)

\* Value of a sequence of digits (0 for none)
RECURSIVE DigitsVal(_)
DigitsVal(ds) ==
    IF ds = <<>> THEN 0
    ELSE 10 * DigitsVal(SubSeq(ds, 1, Len(ds) - 1)) + DigitVal(ds[Len(ds)])

\* Length of the longest prefix of digits of str from index i on
RECURSIVE DigitRun(_, _)
DigitRun(str, i) ==
    IF i <= Len(str) /\ str[i] \in Digits THEN 1 + DigitRun(str, i + 1) ELSE 0

RECURSIVE StripZeros(_)
StripZeros(ds) ==
    IF ds # <<>> /\ ds[Len(ds)] = "0" THEN StripZeros(SubSeq(ds, 1, Len(ds) - 1)) ELSE ds

\* std::stoll(str): an optional sign, then the longest run of digits; no digit
\* is std::invalid_argument.  (The model reads fewer than ten digits, so the
\* std::out_of_range of a value beyond long long never arises.)
stoll(str) ==
    LET signed == str # <<>> /\ str[1] \in {"+", "-"}
        from == IF signed THEN 2 ELSE 1
        n == DigitRun(str, from)
        v == DigitsVal(SubSeq(str, from, from + n - 1))
    IN  IF n = 0 THEN Throw("std::invalid_argument")
        ELSE Integer(IF signed /\ str[1] = "-" THEN 0 - v ELSE v)

\* std::stod(str): an optional sign, digits, an optional '.', digits; no digit
\* on either side is std::invalid_argument.
stod(str) ==
    LET signed == str # <<>> /\ str[1] \in {"+", "-"}
        from == IF signed THEN 2 ELSE 1
        n == DigitRun(str, from)
        dot == from + n <= Len(str) /\ str[from + n] = "."
        m == IF dot THEN DigitRun(str, from + n + 1) ELSE 0
        frac == StripZeros(SubSeq(str, from + n + 1, from + n + m))
    IN  IF n + m = 0 THEN Throw("std::invalid_argument")
        ELSE Float(signed /\ str[1] = "-",
                   DigitsVal(SubSeq(str, from, from + n - 1) \o frac), Len(frac))

-----------------------------------------------------------------------------
(* CSV::detectType *)

\* Lines 289-292: strip one quote from each end
Unquote(str) ==
    IF str[1] = QUOTE /\ str[Len(str)] = QUOTE
    THEN LET cut == SubSeq(str, 1, Len(str) - 1) IN
         IF cut = <<>> THEN cut ELSE Tail(cut)
    ELSE str

\* Lines 293-311: the scan, from index i on; the type it settles on
RECURSIVE Scan(_, _, _)
Scan(str, i, isFloat) ==
    IF i > Len(str) THEN (IF isFloat THEN "double" ELSE "long long")
    ELSE IF str[i] \in Digits THEN Scan(str, i + 1, isFloat)
    ELSE IF str[i] = "." THEN (IF ~isFloat THEN Scan(str, i + 1, TRUE) ELSE "string")
    ELSE IF i = 1 /\ str[i] \in {"+", "-"} THEN Scan(str, i + 1, isFloat)
    ELSE "string"

\* str.at(0) of an empty string throws std::out_of_range
detectType(str) ==
    IF str = <<>> THEN Throw("std::out_of_range")
    ELSE LET s == Unquote(str)
             t == Scan(s, 1, FALSE)
         IN  CASE t = "string" -> Text(s)
               [] t = "double" -> stod(s)
               [] t = "long long" -> stoll(s)

-----------------------------------------------------------------------------
(* CSV::anyToString *)

RECURSIVE NatToStr(_)
NatToStr(n) ==
    IF n < 10 THEN <<DigitChar(n)>> ELSE NatToStr(n \div 10) \o <<DigitChar(n % 10)>>

\* n in exactly k digits, zero-padded on the left
RECURSIVE Padded(_, _)
Padded(n, k) ==
    IF k = 0 THEN <<>> ELSE Padded(n \div 10, k - 1) \o <<DigitChar(n % 10)>>

\* std::to_string(long long)
to_string(n) == IF n < 0 THEN <<"-">> \o NatToStr(0 - n) ELSE NatToStr(n)

\* operator<< of a double under std::fixed and std::setprecision(p).  A value
\* halfway between two p-decimal numbers is rounded as its binary expansion
\* decides, which the model does not hold: tieUp says which way it goes.
fixed(v, p, tieUp) ==
    LET q == IF v.scale <= p
             THEN v.num * Pow10(p - v.scale)
             ELSE LET d == Pow10(v.scale - p)
                      r == v.num % d
                  IN  (v.num \div d)
                      + (IF 2 * r > d \/ (2 * r = d /\ tieUp) THEN 1 ELSE 0)
    IN  (IF v.neg THEN <<"-">> ELSE <<>>)
        \o NatToStr(q \div Pow10(p))
        \o (IF p > 0 THEN <<".">> \o Padded(q % Pow10(p), p) ELSE <<>>)

\* Cells hold std::string, double or long long here; the int, short and char
\* branches (lines 331-336) are not reached.
anyToString(v, tieUp) ==
    CASE v.type = "string" -> v.str
      [] v.type = "double" -> fixed(v, double_precision_, tieUp)
      [] v.type = "long long" -> to_string(v.num)

-----------------------------------------------------------------------------
(* Tokenizers of CSV::parse *)

\* Lines 367-374: a field is kept unless it is empty and getline hit the end
RECURSIVE HeaderLoop(_, _, _)
HeaderLoop(ss, sep, titles) ==
    LET g == getline(ss, <<>>, sep) IN
    IF ~g.s.eof \/ g.str # <<>>
    THEN HeaderLoop(g.s, sep, Append(titles, g.str))
    ELSE titles

\* Lines 366-374: the titles of a header line
HeaderTokens(ln, sep) == HeaderLoop(Stream(ln), sep, <<>>)

\* DataLoop with the header's rule: an empty last field is dropped
RECURSIVE DataLoopDropsTrailing(_, _, _, _)
DataLoopDropsTrailing(s, sep, derive, row) ==
    LET g == getline(s, <<>>, sep)
        cell == IF derive THEN detectType(g.str) ELSE Text(g.str)
    IN  IF g.s.eof /\ g.str = <<>> THEN [thrown |-> "", row |-> row]
        ELSE IF IsThrow(cell) THEN [thrown |-> cell.what, row |-> row]
        ELSE IF g.s.eof THEN [thrown |-> "", row |-> Append(row, cell)]
        ELSE DataLoopDropsTrailing(g.s, sep, derive, Append(row, cell))

\* Lines 387-396: every field is kept; the loop ends once getline hit the end.
\* thrown names the exception detectType let out, "" when none.
RECURSIVE DataLoop(_, _, _, _)
DataLoop(s, sep, derive, row) ==
    LET g == getline(s, <<>>, sep)
        cell == IF derive THEN detectType(g.str) ELSE Text(g.str)
    IN  IF IsThrow(cell) THEN [thrown |-> cell.what, row |-> row]
        ELSE IF g.s.eof THEN [thrown |-> "", row |-> Append(row, cell)]
        ELSE DataLoop(g.s, sep, derive, Append(row, cell))

\* Lines 385-396: the row of a data line
DataTokens(ln, sep, derive) == DataLoop(Stream(ln), sep, derive, <<>>)

-----------------------------------------------------------------------------
(* Calls and how they end *)

Call(op, arg) == [op |-> op, arg |-> arg]

\* The Settings a constructor is given
SettingsArg(e, sep, derive) == [ending |-> e, separator |-> sep, auto_derive_type |-> derive]

NoRet == [kind |-> "none", val |-> 0, what |-> ""]

Returned(v) == [kind |-> "return", val |-> v, what |-> ""]

Thrown(what) == [kind |-> "throw", val |-> 0, what |-> what]

NoTable == [written |-> FALSE, title |-> <<>>, values |-> <<>>]

-----------------------------------------------------------------------------
(* Inputs *)

Endings == {"LF", "CRLF", "AUTO"}

Separators == {",", ";"}

StreamChars == {"a", "1", ",", CR, NL}

Streams == StringsUpTo(StreamChars, MaxStream)

Texts == StringsUpTo(StreamChars, MaxText)

TitleArgs == {<<>>, << <<"a">> >>, << <<"a">>, <<"b">> >>}

CellArgs == {Text(<<"a">>), Integer(1)}

\* Rows as long as the titles a caller sets
RowArgs == UNION {[1..Len(t) -> CellArgs] : t \in TitleArgs}

\* The caller gives addRow cells of the types the table would hold by itself:
\* Text alone while type inference is off
Fitting(l) == auto_derive_type_ \/ \A j \in 1..Len(l) : l[j].type = "string"

-----------------------------------------------------------------------------
(* Construction *)

\* Line 26: Settings(); line 91: no titles, no rows
Init ==
    /\ ending_ = "LF"
    /\ separator_ = ","
    /\ auto_derive_type_ = FALSE
    /\ double_precision_ = 1
    /\ title_ = <<>>
    /\ values_ = <<>>
    /\ pc = "new"
    /\ src = NoStream
    /\ line = <<>>
    /\ delim_line = NOCHAR
    /\ input = <<>>
    /\ call = Call("none", <<>>)
    /\ ret = NoRet
    /\ out = <<>>
    /\ T = NoTable

\* CSV(const Settings&)
CSVSettings ==
    /\ pc = "new"
    /\ \E e \in Endings, sep \in Separators, derive \in BOOLEAN :
          /\ ending_' = e
          /\ separator_' = sep
          /\ auto_derive_type_' = derive
          /\ call' = Call("CSV", SettingsArg(e, sep, derive))
    /\ pc' = "ready"
    /\ UNCHANGED <<double_precision_, title_, values_, parseVars, ret, out, T>>

\* CSV(const std::string&, const Settings&), up to its call of parse, for a
\* text among strs
CSVString(strs) ==
    /\ pc = "new"
    /\ \E str \in strs, e \in Endings, sep \in Separators, derive \in BOOLEAN :
          /\ ending_' = e
          /\ separator_' = sep
          /\ auto_derive_type_' = derive
          /\ src' = Stream(str)
          /\ input' = str
          /\ call' = Call("CSV", SettingsArg(e, sep, derive))
    /\ pc' = "sniff"
    /\ UNCHANGED <<double_precision_, title_, values_, line, delim_line, ret, out, T>>

-----------------------------------------------------------------------------
(* CSV::parse *)

\* Sniff with the two modes exchanged
RECURSIVE SniffSwapped(_, _)
SniffSwapped(s, ln) ==
    IF s.eof THEN [s |-> s, line |-> ln, ending |-> "AUTO"]
    ELSE LET g == get(s) IN
         IF g.ch = CR THEN [s |-> g.s, line |-> ln, ending |-> "LF"]
         ELSE IF g.ch = NL THEN [s |-> g.s, line |-> ln, ending |-> "CRLF"]
         ELSE SniffSwapped(g.s, Append(ln, g.ch))

\* Lines 342-355: read up to the first '\r' or '\n', or past the end
RECURSIVE Sniff(_, _)
Sniff(s, ln) ==
    IF s.eof THEN [s |-> s, line |-> ln, ending |-> "AUTO"]
    ELSE LET g == get(s) IN
         IF g.ch = CR THEN [s |-> g.s, line |-> ln, ending |-> "CRLF"]
         ELSE IF g.ch = NL THEN [s |-> g.s, line |-> ln, ending |-> "LF"]
         ELSE Sniff(g.s, Append(ln, g.ch))

\* Lines 340-357
ParseSniff ==
    /\ pc = "sniff"
    /\ LET r == IF ending_ = "AUTO" THEN Sniff(src, <<>>)
                ELSE [s |-> src, line |-> <<>>, ending |-> ending_]
       IN  /\ src' = r.s
           /\ line' = r.line
           /\ ending_' = r.ending
           /\ delim_line' = IF r.ending = "LF" THEN NL ELSE CR
    /\ pc' = "header"
    /\ UNCHANGED <<separator_, auto_derive_type_, double_precision_, title_, values_,
                   input, call, ret, out, T>>

\* Lines 359-374
ParseHeader ==
    /\ pc = "header"
    /\ IF line = <<>>
       THEN /\ pc' = "parsed"
            /\ ret' = Returned(0 - 1)
            /\ UNCHANGED <<src, title_, values_>>
       ELSE /\ src' = IF delim_line = CR THEN get(src).s ELSE src
            /\ title_' = HeaderTokens(line, separator_)
            /\ values_' = <<>>
            /\ pc' = "rows"
            /\ UNCHANGED ret
    /\ UNCHANGED <<settingsVars, line, delim_line, input, call, out, T>>

\* Lines 376-402: one turn of the loop over the data lines
ParseLine ==
    /\ pc = "rows"
    /\ LET g == getline(src, line, delim_line)
           s == IF delim_line = CR THEN get(g.s).s ELSE g.s
           tok == DataTokens(g.str, separator_, auto_derive_type_)
       IN  /\ line' = g.str
           /\ IF g.str = <<>>
              THEN /\ src' = g.s
                   /\ UNCHANGED values_
                   /\ IF ~g.s.eof
                      THEN /\ pc' = "thrown"
                           /\ ret' = Thrown("Invalid Dataline (Empty Line)")
                      ELSE /\ pc' = "parsed"
                           /\ ret' = Returned(0)
              ELSE /\ src' = s
                   /\ IF tok.thrown # ""
                      THEN /\ pc' = "thrown"
                           /\ ret' = Thrown(tok.thrown)
                           /\ UNCHANGED values_
                      ELSE IF Len(tok.row) # Len(title_)
                      THEN /\ pc' = "thrown"
                           /\ ret' = Thrown("Invalid Dataline")
                           /\ UNCHANGED values_
                      ELSE /\ values_' = Append(values_, tok.row)
                           /\ pc' = IF s.eof THEN "parsed" ELSE "rows"
                           /\ ret' = IF s.eof THEN Returned(0) ELSE ret
    /\ UNCHANGED <<settingsVars, title_, delim_line, input, call, out, T>>

\* Lines 94, 99: parse's result is dropped; the constructor returns and the
\* stream and parse's locals are gone
Constructed ==
    /\ pc = "parsed"
    /\ pc' = "ready"
    /\ src' = NoStream
    /\ line' = <<>>
    /\ delim_line' = NOCHAR
    /\ input' = <<>>
    /\ ret' = NoRet
    /\ UNCHANGED <<settingsVars, title_, values_, call, out, T>>

-----------------------------------------------------------------------------
(* The public operations of a constructed table *)

\* Lines 204-206
empty == title_ = <<>>

getColumnCount == Len(title_)

getRowCount == Len(values_)

\* Lines 162-165, with clear() (lines 208-211)
setTitle(t) ==
    /\ pc = "ready"
    /\ title_' = t
    /\ values_' = <<>>
    /\ call' = Call("setTitle", t)
    /\ ret' = NoRet
    /\ out' = <<>>
    /\ UNCHANGED <<settingsVars, pc, parseVars, T>>

\* addRow without its check of the length
addRowUnchecked(l) ==
    /\ pc = "ready"
    /\ Len(values_) < MaxRows
    /\ values_' = Append(values_, l)
    /\ ret' = NoRet
    /\ call' = Call("addRow", l)
    /\ out' = <<>>
    /\ UNCHANGED <<settingsVars, title_, pc, parseVars, T>>

\* Lines 172-176
addRow(l) ==
    /\ pc = "ready"
    /\ Len(values_) < MaxRows
    /\ IF Len(l) # Len(title_)
       THEN /\ ret' = Thrown("addRow(): Invalid value count")
            /\ UNCHANGED values_
       ELSE /\ values_' = Append(values_, l)
            /\ ret' = NoRet
    /\ call' = Call("addRow", l)
    /\ out' = <<>>
    /\ UNCHANGED <<settingsVars, title_, pc, parseVars, T>>

\* addRow called with a row of RowArgs that fits the table's setting
addRowFitting == \E l \in RowArgs : Fitting(l) /\ addRow(l)

\* values_.erase(values_.begin() + b, values_.begin() + e): rows b .. e-1, from 0
erase(rows, b, e) == SubSeq(rows, 1, b) \o SubSeq(rows, e + 1, Len(rows))

\* Lines 184-188
removeRow(index) ==
    /\ pc = "ready"
    /\ IF index >= Len(values_)
       THEN /\ ret' = Thrown("removeRow(): Index out of range")
            /\ UNCHANGED values_
       ELSE /\ values_' = erase(values_, index, index + 1)
            /\ ret' = NoRet
    /\ call' = Call("removeRow", <<>>)
    /\ out' = <<>>
    /\ UNCHANGED <<settingsVars, title_, pc, parseVars, T>>

\* Lines 190-194
removeRowRange(begin, end) ==
    /\ pc = "ready"
    /\ IF begin >= Len(values_) \/ end >= Len(values_) \/ begin > end
       THEN /\ ret' = Thrown("removeRow(): Invalid range")
            /\ UNCHANGED values_
       ELSE /\ values_' = erase(values_, begin, end)
            /\ ret' = NoRet
    /\ call' = Call("removeRow", <<>>)
    /\ out' = <<>>
    /\ UNCHANGED <<settingsVars, title_, pc, parseVars, T>>

\* Lines 208-211
clear ==
    /\ pc = "ready"
    /\ title_' = <<>>
    /\ values_' = <<>>
    /\ call' = Call("clear", <<>>)
    /\ ret' = NoRet
    /\ out' = <<>>
    /\ UNCHANGED <<settingsVars, pc, parseVars, T>>

\* settings().setEnding(e): lines 38-41, 213-215
setEnding(e) ==
    /\ pc = "ready"
    /\ ending_' = e
    /\ call' = Call("setEnding", <<e>>)
    /\ ret' = NoRet
    /\ out' = <<>>
    /\ UNCHANGED <<separator_, auto_derive_type_, double_precision_, title_, values_,
                   pc, parseVars, T>>

\* settings().setSeparator(c): lines 47-50
setSeparator(c) ==
    /\ pc = "ready"
    /\ separator_' = c
    /\ call' = Call("setSeparator", <<c>>)
    /\ ret' = NoRet
    /\ out' = <<>>
    /\ UNCHANGED <<ending_, auto_derive_type_, double_precision_, title_, values_,
                   pc, parseVars, T>>

\* settings().setAutoDeriveType(opt): lines 56-59
setAutoDeriveType(opt) ==
    /\ pc = "ready"
    /\ auto_derive_type_' = opt
    /\ call' = Call("setAutoDeriveType", <<opt>>)
    /\ ret' = NoRet
    /\ out' = <<>>
    /\ UNCHANGED <<ending_, separator_, double_precision_, title_, values_,
                   pc, parseVars, T>>

-----------------------------------------------------------------------------
(* CSV::write *)

\* Lines 229-236, 250-257, 272-279
Terminator == IF ending_ = "LF" THEN <<NL>> ELSE <<CR, NL>>

\* Lines 221-228: the titles with the separator between them
RECURSIVE JoinFrom(_, _, _)
JoinFrom(strs, i, sep) ==
    IF i > Len(strs) THEN <<>>
    ELSE strs[i] \o (IF i < Len(strs) THEN <<sep>> ELSE <<>>) \o JoinFrom(strs, i + 1, sep)

\* Line 242 (std::any_cast<std::string>, which throws std::bad_any_cast on a
\* cell of another type) and line 264
CellText(v, tieUp) ==
    IF ~auto_derive_type_
    THEN [ok |-> v.type = "string", str |-> v.str]
    ELSE [ok |-> TRUE, str |-> anyToString(v, tieUp)]

\* Lines 241-257, 263-279: what one row writes, from cell j on; ok is FALSE when
\* a cell threw, and text is then what was written before it
RECURSIVE WriteRow(_, _, _)
WriteRow(row, j, tieUp) ==
    IF j > Len(row) THEN [ok |-> TRUE, text |-> Terminator]
    ELSE LET c == CellText(row[j], tieUp) IN
         IF ~c.ok THEN [ok |-> FALSE, text |-> <<>>]
         ELSE LET rest == WriteRow(row, j + 1, tieUp) IN
              [ok |-> rest.ok,
               text |-> c.str \o (IF j < Len(row) THEN <<separator_>> ELSE <<>>)
                        \o rest.text]

\* Lines 239-240, 261-262: the rows from row i on
RECURSIVE WriteRows(_, _)
WriteRows(i, tieUp) ==
    IF i > Len(values_) THEN [ok |-> TRUE, text |-> <<>>]
    ELSE LET r == WriteRow(values_[i], 1, tieUp) IN
         IF ~r.ok THEN r
         ELSE LET rest == WriteRows(i + 1, tieUp) IN
              [ok |-> rest.ok, text |-> r.text \o rest.text]

\* Lines 217-284: the text written and whether write() returned
WriteText(tieUp) ==
    IF empty THEN [ok |-> TRUE, text |-> <<>>]
    ELSE LET rows == WriteRows(1, tieUp) IN
         [ok |-> rows.ok,
          text |-> JoinFrom(title_, 1, separator_) \o Terminator \o rows.text]

\* write() returns the count of the characters it wrote (ret, lines 218-283)
write(tieUp) ==
    /\ pc = "ready"
    /\ LET w == WriteText(tieUp) IN
       /\ out' = w.text
       /\ ret' = IF w.ok THEN Returned(Len(w.text)) ELSE Thrown("std::bad_any_cast")
    /\ call' = Call("write", <<>>)
    /\ UNCHANGED <<settingsVars, title_, values_, pc, parseVars, T>>

-----------------------------------------------------------------------------
(* The life of one table: constructed, with or without a text to parse, then  *)
(* used through its public operations                                         *)

Next ==
    \/ CSVSettings
    \/ CSVString(Texts)
    \/ ParseSniff
    \/ ParseHeader
    \/ ParseLine
    \/ Constructed
    \/ \E t \in TitleArgs : setTitle(t)
    \/ addRowFitting
    \/ \E index \in 0..Len(values_) : removeRow(index)
    \/ \E begin \in 0..Len(values_), end \in 0..Len(values_) :
          removeRowRange(begin, end)
    \/ clear
    \/ \E e \in Endings : setEnding(e)
    \/ \E c \in Separators : setSeparator(c)
    \/ \E opt \in BOOLEAN : setAutoDeriveType(opt)
    \/ \E tieUp \in BOOLEAN : write(tieUp)

Spec == Init /\ [][Next]_vars

-----------------------------------------------------------------------------
(* Construction from a text alone: CSV(str, settings), parse and nothing after *)

NextParse ==
    \/ CSVString(Streams)
    \/ ParseSniff
    \/ ParseHeader
    \/ ParseLine
    \/ Constructed

SpecParse == Init /\ [][NextParse]_vars

-----------------------------------------------------------------------------
(* The two tokenizers of parse, each applied to a line on its own *)

LineChars == {"a", ",", ";"}

Lines == StringsUpTo(LineChars, MaxLine)

\* The separator is set; a line is at hand
InitTokenize ==
    /\ ending_ = "LF"
    /\ separator_ \in Separators
    /\ auto_derive_type_ = FALSE
    /\ double_precision_ = 1
    /\ title_ = <<>>
    /\ values_ = <<>>
    /\ pc = "line"
    /\ src = NoStream
    /\ line \in Lines
    /\ delim_line = NL
    /\ input = <<>>
    /\ call = Call("none", <<>>)
    /\ ret = NoRet
    /\ out = <<>>
    /\ T = NoTable

\* Lines 366-374 on the line
TokenizeHeader ==
    /\ pc = "line"
    /\ title_' = HeaderTokens(line, separator_)
    /\ pc' = "titles"
    /\ UNCHANGED <<settingsVars, values_, parseVars, call, ret, out, T>>

\* Lines 385-396 on the same line
TokenizeData ==
    /\ pc = "titles"
    /\ LET tok == DataTokens(line, separator_, auto_derive_type_) IN
       /\ values_' = <<tok.row>>
       /\ ret' = IF tok.thrown # "" THEN Thrown(tok.thrown) ELSE NoRet
    /\ pc' = "fields"
    /\ UNCHANGED <<settingsVars, title_, parseVars, call, out, T>>

NextTokenize == TokenizeHeader \/ TokenizeData

SpecTokenize == InitTokenize /\ [][NextTokenize]_vars

-----------------------------------------------------------------------------
(* detectType applied to a raw field on its own *)

FieldChars == {"1", ".", "+", "-", QUOTE, "a"}

Fields == StringsUpTo(FieldChars, MaxField)

\* A raw field (parse's val) is at hand
InitDetect ==
    /\ ending_ = "LF"
    /\ separator_ = ","
    /\ auto_derive_type_ = TRUE
    /\ double_precision_ = 1
    /\ title_ = <<>>
    /\ values_ = <<>>
    /\ pc = "field"
    /\ src = NoStream
    /\ line \in Fields
    /\ delim_line = NL
    /\ input = <<>>
    /\ call = Call("none", <<>>)
    /\ ret = NoRet
    /\ out = <<>>
    /\ T = NoTable

\* Line 391: row.emplace_back(detectType(std::move(val)))
DetectType ==
    /\ pc = "field"
    /\ LET v == detectType(line) IN
       IF IsThrow(v)
       THEN /\ ret' = Thrown(v.what)
            /\ UNCHANGED values_
       ELSE /\ ret' = NoRet
            /\ values_' = << <<v>> >>
    /\ pc' = "detected"
    /\ call' = Call("detectType", line)
    /\ UNCHANGED <<settingsVars, title_, parseVars, out, T>>

NextDetect == DetectType

SpecDetect == InitDetect /\ [][NextDetect]_vars

-----------------------------------------------------------------------------
(* A table of Text cells written by write() and read back by a second table *)
(* constructed from the text with the same settings                          *)

TitleStrs == {<<"a">>, <<"b">>}

CellStrs == {<<"a">>, <<"1">>}

TextRows(k) == [1..k -> {Text(c) : c \in CellStrs}]

ValidTables ==
    UNION {[title : [1..k -> TitleStrs],
            values : UNION {[1..n -> TextRows(k)] : n \in 0..MaxRows}]
           : k \in 1..MaxCols}

\* What setTitle and addRow build from CSV(settings), type inference off
InitRoundTrip ==
    /\ ending_ \in Endings
    /\ separator_ \in Separators
    /\ auto_derive_type_ = FALSE
    /\ double_precision_ = 1
    /\ \E t \in ValidTables : title_ = t.title /\ values_ = t.values
    /\ pc = "ready"
    /\ src = NoStream
    /\ line = <<>>
    /\ delim_line = NOCHAR
    /\ input = <<>>
    /\ call = Call("none", <<>>)
    /\ ret = NoRet
    /\ out = <<>>
    /\ T = NoTable

\* CSV(out, settings()) once write() has returned: the table written is kept
\* as T, and title_ and values_ are from here on those of the new table
ReadBack ==
    /\ pc = "ready"
    /\ ~T.written
    /\ call.op = "write"
    /\ ret.kind = "return"
    /\ T' = [written |-> TRUE, title |-> title_, values |-> values_]
    /\ title_' = <<>>
    /\ values_' = <<>>
    /\ src' = Stream(out)
    /\ input' = out
    /\ pc' = "sniff"
    /\ call' = Call("CSV", SettingsArg(ending_, separator_, auto_derive_type_))
    /\ ret' = NoRet
    /\ UNCHANGED <<settingsVars, line, delim_line, out>>

NextRoundTrip ==
    \/ \E tieUp \in BOOLEAN : write(tieUp)
    \/ ReadBack
    \/ ParseSniff
    \/ ParseHeader
    \/ ParseLine
    \/ Constructed

SpecRoundTrip == InitRoundTrip /\ [][NextRoundTrip]_vars

-----------------------------------------------------------------------------
(* Reference notions the properties are stated with *)

\* The fields of a line: the pieces between its separators, empty ones included
RECURSIVE SplitAt(_, _)
SplitAt(ln, sep) ==
    IF ln = <<>> THEN << <<>> >>
    ELSE LET rest == SplitAt(Tail(ln), sep) IN
         IF Head(ln) = sep THEN << <<>> >> \o rest
         ELSE << <<Head(ln)>> \o Head(rest) >> \o Tail(rest)

\* The fields with a last empty one dropped
DropTrailingEmpty(f) == IF f[Len(f)] = <<>> THEN SubSeq(f, 1, Len(f) - 1) ELSE f

TextCells(f) == [i \in 1..Len(f) |-> Text(f[i])]

-----------------------------------------------------------------------------
(* C9 *)

\* C9: header tokenization gives the separator-split fields of the line with a
\* trailing empty field dropped; data-row tokenization gives all of them, the
\* trailing empty one kept; interior empty fields are kept by both.
C9_TrailingFieldAsymmetry ==
    /\ pc \in {"titles", "fields"} => title_ = DropTrailingEmpty(SplitAt(line, separator_))
    /\ pc = "fields" =>
          /\ ret.kind # "throw"
          /\ values_ = <<TextCells(SplitAt(line, separator_))>>

\* A line of two separators that ends in one: two titles, the second an
\* interior empty field, and three fields
C9_Witness ==
    /\ pc = "fields"
    /\ Len(line) = 3
    /\ line[1] # separator_ /\ line[2] = separator_ /\ line[3] = separator_
    /\ Len(title_) = 2 /\ title_[2] = <<>>
    /\ Len(values_[1]) = 3

-----------------------------------------------------------------------------
(* C10 *)

Stripped(s) ==
    IF Len(s) >= 2 /\ s[1] = QUOTE /\ s[Len(s)] = QUOTE
    THEN SubSeq(s, 2, Len(s) - 1) ELSE s

\* The inference rule: Text for an empty string, for a character that is no
\* digit, '.', or sign at the front, and for a second '.'; else Float with a
\* '.', Integer without
RuleType(u) ==
    LET dots == {i \in 1..Len(u) : u[i] = "."}
        bad == {i \in 1..Len(u) : /\ u[i] \notin Digits \cup {"."}
                                   /\ ~(i = 1 /\ u[i] \in {"+", "-"})}
    IN  IF u = <<>> \/ bad # {} \/ Cardinality(dots) >= 2 THEN "string"
        ELSE IF dots # {} THEN "double" ELSE "long long"

\* C10: detectType is total and follows the rule: for every raw field it
\* returns a Value without failing: Text("") for the empty field, Text of the
\* quote-stripped string when the scan disqualifies it, Float when the scan
\* saw one '.', Integer when it saw none.
C10_DetectTypeTotal ==
    pc = "detected" =>
        /\ ret.kind # "throw"
        /\ values_[1][1].type = RuleType(Stripped(line))
        /\ values_[1][1].type = "string" => values_[1][1].str = Stripped(line)

-----------------------------------------------------------------------------
(* C1 *)

\* C1: with type inference off, a valid table of Text cells written by write()
\* and parsed back under the same settings gives the same titles and the same
\* rows, whatever the separator and the line-ending mode.
C1_RoundTrip ==
    (T.written /\ pc \in {"parsed", "thrown"}) =>
        /\ pc = "parsed"
        /\ title_ = T.title
        /\ values_ = T.values

-----------------------------------------------------------------------------
(* Reference notions of a text's lines *)

\* The terminator of a line-ending mode: "\n" for LF, "\r\n" for CRLF
TermOf(mode) == IF mode = "LF" THEN <<NL>> ELSE <<CR, NL>>

\* Index of the first occurrence of the sequence term in str from i on, 0 if none
RECURSIVE FirstAt(_, _, _)
FirstAt(str, i, term) ==
    IF i + Len(term) - 1 > Len(str) THEN 0
    ELSE IF SubSeq(str, i, i + Len(term) - 1) = term THEN i
    ELSE FirstAt(str, i + 1, term)

\* The pieces of str between occurrences of term; a text that ends in term
\* has an empty last piece
RECURSIVE SplitTerm(_, _)
SplitTerm(str, term) ==
    LET k == FirstAt(str, 1, term) IN
    IF k = 0 THEN <<str>>
    ELSE <<SubSeq(str, 1, k - 1)>>
         \o SplitTerm(SubSeq(str, k + Len(term), Len(str)), term)

\* The header line and the data lines of a text under a mode: the pieces
\* between terminators, without the empty piece after a final terminator
LinesOf(str, mode) ==
    LET p == SplitTerm(str, TermOf(mode)) IN
    IF p[Len(p)] = <<>> THEN SubSeq(p, 1, Len(p) - 1) ELSE p

HeaderOf(str, mode) == LET l == LinesOf(str, mode) IN IF l = <<>> THEN <<>> ELSE l[1]

DataOf(str, mode) == LET l == LinesOf(str, mode) IN IF l = <<>> THEN <<>> ELSE Tail(l)

\* The Settings the constructor was given
Configured == call.arg

\* The cell parse is to make of a raw field
CellOf(f) == IF Configured.auto_derive_type THEN detectType(f) ELSE Text(f)

-----------------------------------------------------------------------------
(* C2 *)

\* A non-empty header line that does not end in a separator, and data lines
\* that are not empty and have as many fields as the header; no line holds a
\* '\r' or '\n' of its own
WellFormed(str, mode, sep) ==
    LET l == LinesOf(str, mode) IN
    /\ l # <<>>
    /\ \A i \in 1..Len(l) :
          /\ l[i] # <<>>
          /\ \A j \in 1..Len(l[i]) : l[i][j] \notin {CR, NL}
          /\ Len(SplitAt(l[i], sep)) = Len(SplitAt(l[1], sep))
    /\ l[1][Len(l[1])] # sep

\* C2: under an explicit mode (LF or CRLF) parse splits the text at that
\* terminator: a text of a non-empty header line and n well-formed data lines
\* gives the header's fields as titles and n rows, the data lines' fields in order.
C2_ExplicitMode ==
    (/\ pc \in {"parsed", "thrown"}
     /\ call.op = "CSV"
     /\ Configured.ending \in {"LF", "CRLF"}
     /\ WellFormed(input, Configured.ending, separator_)) =>
        LET data == DataOf(input, Configured.ending) IN
        /\ pc = "parsed"
        /\ title_ = SplitAt(HeaderOf(input, Configured.ending), separator_)
        /\ Len(values_) = Len(data)
        /\ \A i \in 1..Len(data) :
              LET f == SplitAt(data[i], separator_) IN
              values_[i] = [j \in 1..Len(f) |-> CellOf(f[j])]

-----------------------------------------------------------------------------
(* C4 *)

\* Data line i of the text is malformed: empty and not the last line, or not
\* empty with a count of fields that is not the count of titles
Malformed(str, mode, sep, i) ==
    LET data == DataOf(str, mode)
        titles == DropTrailingEmpty(SplitAt(HeaderOf(str, mode), sep))
    IN  \/ data[i] = <<>> /\ i < Len(data)
        \/ data[i] # <<>> /\ Len(SplitAt(data[i], sep)) # Len(titles)

FirstMalformed(str, mode, sep) ==
    LET bad == {i \in 1..Len(DataOf(str, mode)) : Malformed(str, mode, sep, i)} IN
    IF bad = {} THEN 0 ELSE CHOOSE i \in bad : \A j \in bad : i <= j

\* The mode parse reads the data lines under: the one configured, or in AUTO
\* mode the one of the first '\r' or '\n' of the text
RECURSIVE FirstTerminator(_, _)
FirstTerminator(str, i) ==
    IF i > Len(str) THEN 0
    ELSE IF str[i] \in {CR, NL} THEN i
    ELSE FirstTerminator(str, i + 1)

ModeOf(str) ==
    IF Configured.ending # "AUTO" THEN Configured.ending
    ELSE LET p == FirstTerminator(str, 1) IN
         IF p = 0 THEN "AUTO" ELSE IF str[p] = CR THEN "CRLF" ELSE "LF"

\* C4: for a text with a non-empty header, in every mode, a malformed data line
\* ends the parse in an error at the first such line: the parse never returns
\* normally, and no row of that line or of a later one is in the table.
C4_FailFast ==
    (/\ pc \in {"parsed", "thrown"}
     /\ call.op = "CSV"
     /\ ModeOf(input) # "AUTO"
     /\ HeaderOf(input, ModeOf(input)) # <<>>
     /\ FirstMalformed(input, ModeOf(input), separator_) > 0) =>
        /\ pc = "thrown"
        /\ Len(values_) = FirstMalformed(input, ModeOf(input), separator_) - 1

-----------------------------------------------------------------------------
(* C5 *)

\* C5: when the header line parse obtained is empty, parse ends at once in an
\* error that reaches the caller; the constructor never returns normally.
C5_EmptyHeaderIsFatal == [][(pc = "header" /\ line = <<>>) => pc' = "thrown"]_vars

-----------------------------------------------------------------------------
(* C8 *)

\* A text with a '\r' or '\n' is being parsed by a table configured AUTO
AutoParse ==
    /\ call.op = "CSV"
    /\ Configured.ending = "AUTO"
    /\ FirstTerminator(input, 1) > 0

\* The pieces of rest that end at the character d, the skip characters after
\* each d left out
RECURSIVE CutAt(_, _, _)
CutAt(rest, d, skip) ==
    IF rest = <<>> THEN <<>>
    ELSE LET k == FirstAt(rest, 1, <<d>>) IN
         IF k = 0 THEN <<rest>>
         ELSE <<SubSeq(rest, 1, k - 1)>>
              \o CutAt(SubSeq(rest, k + 1 + skip, Len(rest)), d, skip)

\* The data lines of the text once its first '\r' or '\n' has fixed the mode:
\* what follows the header is cut at that character alone, '\r' taking the
\* character after it along
AutoDataLines ==
    LET p == FirstTerminator(input, 1)
        skip == IF input[p] = CR THEN 1 ELSE 0
    IN  CutAt(SubSeq(input, p + 1 + skip, Len(input)), input[p], skip)

\* C8: in AUTO mode, on a text that holds a '\r' or '\n', the header line is the
\* characters before the first of them; the mode becomes CRLF if it is '\r' and
\* LF if it is '\n'; from then on the mode does not change during the parse,
\* and every data line read from the text ends at that one character only.
C8_AutoDetection ==
    /\ [](pc = "header" /\ AutoParse =>
            LET p == FirstTerminator(input, 1) IN
            /\ line = SubSeq(input, 1, p - 1)
            /\ ending_ = IF input[p] = CR THEN "CRLF" ELSE "LF"
            /\ delim_line = input[p])
    /\ [][/\ pc \in {"header", "rows"} =>
                ending_' = ending_ /\ delim_line' = delim_line
          /\ (pc = "rows" /\ AutoParse /\ good(src)) =>
                LET n == Len(values_) + 1 IN
                line' = IF n <= Len(AutoDataLines) THEN AutoDataLines[n] ELSE <<>>]_vars

\* CRLF was detected and a later '\n' stayed inside a cell
C8_Witness ==
    /\ pc = "parsed"
    /\ call.op = "CSV"
    /\ Configured.ending = "AUTO"
    /\ ending_ = "CRLF"
    /\ values_ # <<>>
    /\ values_[1][1].type = "string"
    /\ \E j \in 1..Len(values_[1][1].str) : values_[1][1].str[j] = NL

-----------------------------------------------------------------------------
(* C3 *)

RowLengths == \A i \in 1..Len(values_) : Len(values_[i]) = Len(title_)

\* C3: every stored row has as many cells as there are titles, in every state;
\* an addRow argument of another length is refused with an error and the rows
\* are as before (one of that length is appended as it is); a parsed data line
\* of another count of fields ends the parse in an error and adds no row.
C3_RowLength ==
    /\ []RowLengths
    /\ [][/\ call'.op = "addRow" =>
                /\ title_' = title_
                /\ IF Len(call'.arg) # Len(title_)
                   THEN ret'.kind = "throw" /\ values_' = values_
                   ELSE ret'.kind # "throw" /\ values_' = Append(values_, call'.arg)
          /\ pc = "rows" =>
                LET n == Len(SplitAt(line', separator_)) IN
                /\ title_' = title_
                /\ (line' # <<>> /\ n # Len(title_)) =>
                      pc' = "thrown" /\ values_' = values_
                /\ \/ values_' = values_
                   \/ /\ Len(values_') = Len(values_) + 1
                      /\ SubSeq(values_', 1, Len(values_)) = values_
                      /\ Len(values_'[Len(values_')]) = n
                      /\ n = Len(title_)]_vars

\* addRow has refused a row of the wrong length on a table that holds rows
C3_Witness ==
    /\ pc = "ready"
    /\ call.op = "addRow"
    /\ ret.kind = "throw"
    /\ Len(call.arg) # Len(title_)
    /\ title_ # <<>>
    /\ values_ # <<>>

-----------------------------------------------------------------------------
(* C6 *)

\* C6: whenever type inference is off every stored cell is Text, whatever calls
\* came before (the flag switched off after a parse included), and write()
\* with inference off does not fail.
C6_AllTextWhenDisabled ==
    (pc = "ready" /\ ~auto_derive_type_) =>
        /\ \A i \in 1..Len(values_) : \A j \in 1..Len(values_[i]) :
              values_[i][j].type = "string"
        /\ ~(call.op = "write" /\ ret.kind = "throw")

-----------------------------------------------------------------------------
(* C7 *)

\* C7: empty() is true exactly when there are no titles and no rows; it is
\* never true of a table that holds a row.
C7_EmptyPredicate ==
    pc = "ready" => (empty <=> (title_ = <<>> /\ values_ = <<>>))

====
